---- MODULE Spec2Model ----
(***************************************************************************)
(* Model of stactools.sentinel2.stac: create_item and                      *)
(* image_asset_from_href (src/src/stactools/sentinel2/stac.py).            *)
(*                                                                         *)
(* Python strings are sequences of one-character strings, so that the      *)
(* regular expressions, splitext, lower, endswith and the f-strings of     *)
(* the source are computed character by character.  An Optional value is   *)
(* a sequence of length 0 (None) or 1 (the value).                         *)
(***************************************************************************)
EXTENDS Integers, Sequences, FiniteSets, TLC

\* ------------------------------------------------------------------------
\* Optional values
\* ------------------------------------------------------------------------
None == <<>>
Some(v) == <<v>>
IsSome(o) == Len(o) = 1
Val(o) == o[1]

\* ------------------------------------------------------------------------
\* Characters
\* ------------------------------------------------------------------------
DigitSeq == <<"0", "1", "2", "3", "4", "5", "6", "7", "8", "9">>
UpperSeq == <<"A", "B", "C", "D", "E", "F", "G", "H", "I", "J", "K", "L", "M",
              "N", "O", "P", "Q", "R", "S", "T", "U", "V", "W", "X", "Y", "Z">>
LowerSeq == <<"a", "b", "c", "d", "e", "f", "g", "h", "i", "j", "k", "l", "m",
              "n", "o", "p", "q", "r", "s", "t", "u", "v", "w", "x", "y", "z">>
Range(f) == {f[i] : i \in DOMAIN f}
Digits == Range(DigitSeq)
\* \w of Python's re on the characters used here
WordChars == Digits \cup Range(UpperSeq) \cup Range(LowerSeq) \cup {"_"}

\* str.lower(), one character
LowerChar(c) ==
    IF \E i \in DOMAIN UpperSeq : UpperSeq[i] = c
    THEN LowerSeq[CHOOSE i \in DOMAIN UpperSeq : UpperSeq[i] = c]
    ELSE c
\* str.lower()
StrLower(s) == [i \in DOMAIN s |-> LowerChar(s[i])]

\* int() of one decimal digit
DigitVal(c) == (CHOOSE i \in DOMAIN DigitSeq : DigitSeq[i] = c) - 1
\* int() of a string of decimal digits
RECURSIVE IntOfDigits(_)
IntOfDigits(s) ==
    IF s = <<>> THEN 0
    ELSE 10 * IntOfDigits(SubSeq(s, 1, Len(s) - 1)) + DigitVal(s[Len(s)])
\* str() of a natural number, as an f-string formats it
RECURSIVE StrOfInt(_)
StrOfInt(n) ==
    IF n < 10 THEN <<DigitSeq[n + 1]>>
    ELSE StrOfInt(n \div 10) \o <<DigitSeq[(n % 10) + 1]>>

\* ------------------------------------------------------------------------
\* String searching
\* ------------------------------------------------------------------------
\* the character at position i, "" outside the string
At(s, i) == IF i >= 1 /\ i <= Len(s) THEN s[i] ELSE ""
\* the literal lit stands at position i of s
HasAt(s, i, lit) == \A k \in 1..Len(lit) : At(s, i + k - 1) = lit[k]
\* lit in s
Contains(s, lit) == \E i \in 1..Len(s) : HasAt(s, i, lit)
\* s.endswith(lit)
EndsWith(s, lit) == Len(s) >= Len(lit) /\ HasAt(s, Len(s) - Len(lit) + 1, lit)
\* the leftmost of the positions where a pattern matches, 0 when there is
\* none (re.search)
FirstIdx(matches) ==
    IF matches = {} THEN 0
    ELSE CHOOSE i \in matches : \A j \in matches : i <= j
\* the rightmost position of character c, 0 when there is none (str.rfind)
LastIdx(s, c) ==
    IF \E i \in 1..Len(s) : s[i] = c
    THEN CHOOSE i \in 1..Len(s) : s[i] = c /\ \A j \in (i + 1)..Len(s) : s[j] # c
    ELSE 0

\* os.path.splitext(p): <<root, ext>>; a dot that only follows leading dots of
\* the last path component starts no extension
SplitExt(p) ==
    LET sep == LastIdx(p, "/")
        dot == LastIdx(p, ".")
    IN  IF dot > sep /\ \E k \in (sep + 1)..(dot - 1) : p[k] # "."
        THEN <<SubSeq(p, 1, dot - 1), SubSeq(p, dot, Len(p))>>
        ELSE <<p, <<>> >>

\* s.split('_')[-1]
LastToken(s) == SubSeq(s, LastIdx(s, "_") + 1, Len(s))

\* os.path.join(a, b) on a POSIX system
PathJoin(a, b) ==
    IF At(b, 1) = "/" THEN b
    ELSE IF a = <<>> \/ At(a, Len(a)) = "/" THEN a \o b
    ELSE a \o <<"/">> \o b

\* ------------------------------------------------------------------------
\* The patterns of stac.py
\* ------------------------------------------------------------------------
Seps == {"_", "/"}
TCI_PATTERN(s) ==
    \E i \in 1..Len(s) : At(s, i) \in Seps /\ HasAt(s, i + 1, <<"T", "C", "I">>)
                         /\ At(s, i + 4) \in {"_", "."}
AOT_PATTERN(s) ==
    \E i \in 1..Len(s) : At(s, i) \in Seps /\ HasAt(s, i + 1, <<"A", "O", "T">>)
                         /\ At(s, i + 4) \in {"_", "."}
WVP_PATTERN(s) ==
    \E i \in 1..Len(s) : At(s, i) \in Seps /\ HasAt(s, i + 1, <<"W", "V", "P">>)
                         /\ At(s, i + 4) \in {"_", "."}
SCL_PATTERN(s) ==
    \E i \in 1..Len(s) : At(s, i) \in Seps /\ HasAt(s, i + 1, <<"S", "C", "L">>)
                         /\ At(s, i + 4) \in {"_", "."}
IS_TCI_PATTERN(s) ==
    \E i \in 1..Len(s) : At(s, i) \in Seps /\ HasAt(s, i + 1, <<"T", "C", "I">>)

\* BAND_PATTERN.search(s): the group (B\w{2}) of the leftmost match, or None
BAND_PATTERN(s) ==
    LET i == FirstIdx({k \in 1..Len(s) : At(s, k) \in Seps /\ At(s, k + 1) = "B"
                                    /\ At(s, k + 2) \in WordChars
                                    /\ At(s, k + 3) \in WordChars})
    IN  IF i = 0 THEN None ELSE Some(SubSeq(s, i + 1, i + 3))

\* BAND_ID_PATTERN.search(s): the group (B\d[A\d]) of the leftmost match, or None
BAND_ID_PATTERN(s) ==
    LET i == FirstIdx({k \in 1..Len(s) : At(s, k) \in Seps /\ At(s, k + 1) = "B"
                                    /\ At(s, k + 2) \in Digits
                                    /\ At(s, k + 3) \in (Digits \cup {"A"})})
    IN  IF i = 0 THEN None ELSE Some(SubSeq(s, i + 1, i + 3))

LatBands == {"C", "D", "E", "F", "G", "H", "J", "K", "L", "M", "N", "P", "Q",
             "R", "S", "T", "U", "V", "W", "X"}
SquareCols == Range(UpperSeq) \ {"I", "O"}
SquareRows == {"A", "B", "C", "D", "E", "F", "G", "H", "J", "K", "L", "M", "N",
               "P", "Q", "R", "S", "T", "U", "V"}
\* MGRS_PATTERN matches at position i with a zone of k digits
MgrsAt(s, i, k) ==
    /\ HasAt(s, i, <<"_", "T">>)
    /\ \A d \in 1..k : At(s, i + 1 + d) \in Digits
    /\ At(s, i + 2 + k) \in LatBands
    /\ At(s, i + 3 + k) \in SquareCols
    /\ At(s, i + 4 + k) \in SquareRows
\* MGRS_PATTERN.search(s): the three groups of the leftmost match (\d{1,2} is
\* greedy: two digits are tried before one), or None
MGRS_PATTERN(s) ==
    LET i == FirstIdx({p \in 1..Len(s) : MgrsAt(s, p, 2) \/ MgrsAt(s, p, 1)})
        k == IF MgrsAt(s, i, 2) THEN 2 ELSE 1
    IN  IF i = 0 THEN None
        ELSE Some(<<SubSeq(s, i + 2, i + 1 + k), <<s[i + 2 + k]>>,
                    SubSeq(s, i + 3 + k, i + 4 + k)>>)

\* ------------------------------------------------------------------------
\* Collaborators of stac.py (stactools.sentinel2.constants and .utils)
\* ------------------------------------------------------------------------
B01 == <<"B", "0", "1">>
B02 == <<"B", "0", "2">>
B03 == <<"B", "0", "3">>
B04 == <<"B", "0", "4">>
B05 == <<"B", "0", "5">>
B06 == <<"B", "0", "6">>
B07 == <<"B", "0", "7">>
B08 == <<"B", "0", "8">>
B8A == <<"B", "8", "A">>
B09 == <<"B", "0", "9">>
B10 == <<"B", "1", "0">>
B11 == <<"B", "1", "1">>
B12 == <<"B", "1", "2">>

\* band id -> the resolutions the band comes in, the native one first
BANDS_TO_RESOLUTIONS ==
    (B01 :> <<60>>) @@ (B02 :> <<10, 20, 60>>) @@ (B03 :> <<10, 20, 60>>)
    @@ (B04 :> <<10, 20, 60>>) @@ (B05 :> <<20, 60>>) @@ (B06 :> <<20, 60>>)
    @@ (B07 :> <<20, 60>>) @@ (B08 :> <<10>>) @@ (B8A :> <<20, 60>>)
    @@ (B09 :> <<60>>) @@ (B10 :> <<60>>) @@ (B11 :> <<20, 60>>)
    @@ (B12 :> <<20, 60>>)

\* band id -> the band object (its name stands for it)
SENTINEL_BANDS == [b \in DOMAIN BANDS_TO_RESOLUTIONS |-> [name |-> b]]

\* extract_gsd(href): the resolution tag [_R](\d0)m of the leftmost match as an
\* int, or None
extract_gsd(s) ==
    LET i == FirstIdx({k \in 1..Len(s) : At(s, k) \in {"_", "R"}
                                    /\ At(s, k + 1) \in Digits
                                    /\ At(s, k + 2) = "0" /\ At(s, k + 3) = "m"})
    IN  IF i = 0 THEN None ELSE Some(IntOfDigits(SubSeq(s, i + 1, i + 2)))

\* transform_from_bbox(bbox, shape) of stactools.core, shape = <<rows, cols>>
transform_from_bbox(bbox, shape) ==
    <<(bbox[3] - bbox[1]) \div shape[2], 0, bbox[1],
      0, (bbox[2] - bbox[4]) \div shape[1], bbox[4]>>

JPEG2000 == "image/jp2"
GEOTIFF == "image/tiff; application=geotiff"
COG == "image/tiff; application=geotiff; profile=cloud-optimized"
XML == "application/xml"
JSON == "application/json"

\* ------------------------------------------------------------------------
\* image_asset_from_href
\* ------------------------------------------------------------------------
K_preview == <<"p", "r", "e", "v", "i", "e", "w">>
K_visual == <<"v", "i", "s", "u", "a", "l">>
K_AOT == <<"A", "O", "T">>
K_WVP == <<"W", "V", "P">>
K_SCL == <<"S", "C", "L">>

\* pystac.Asset(href, media_type, title, roles), nothing else set
Asset(href, media_type, title, roles) ==
    [href |-> href, media_type |-> media_type, title |-> title, roles |-> roles,
     bands |-> <<>>, gsd |-> None, shape |-> None, bbox |-> None,
     transform |-> None]
NoAsset == Asset(<<>>, "", <<>>, <<>>)

\* a call that returns (key, asset), and one that raises
Return(key, asset) == [ok |-> TRUE, err |-> "", key |-> key, asset |-> asset]
Raise(e) == [ok |-> FALSE, err |-> e, key |-> <<>>, asset |-> NoAsset]

\* the media type: the override, else by the extension, else None (raises)
MediaTypeOf(asset_href, media_type) ==
    LET ext == StrLower(SplitExt(asset_href)[2])
    IN  IF IsSome(media_type) THEN media_type
        ELSE IF ext = <<".", "j", "p", "2">> THEN Some(JPEG2000)
        ELSE IF ext \in {<<".", "t", "i", "f", "f">>, <<".", "t", "i", "f">>}
             THEN Some(GEOTIFF)
        ELSE None

\* "Extract gsd and proj info": the resolution, None when nothing gives one;
\* err when the band table has no entry for what BAND_PATTERN found
ResolutionOf(asset_href) ==
    LET gsd == extract_gsd(asset_href)
        band_id_search == BAND_PATTERN(asset_href)
    IN  IF IsSome(gsd) THEN [err |-> "", res |-> gsd]
        ELSE IF IsSome(band_id_search)
             THEN IF Val(band_id_search) \in DOMAIN BANDS_TO_RESOLUTIONS
                  THEN [err |-> "",
                        res |-> Some(BANDS_TO_RESOLUTIONS[Val(band_id_search)][1])]
                  ELSE [err |-> "KeyError", res |-> None]
        ELSE IF IS_TCI_PATTERN(asset_href) THEN [err |-> "", res |-> Some(10)]
        ELSE [err |-> "", res |-> None]

\* set_asset_properties(_asset, _band_gsd): the gsd when truthy, and the
\* projection fields
set_asset_properties(asset, band_gsd, shape, proj_bbox, transform) ==
    [asset EXCEPT !.gsd = IF IsSome(band_gsd) /\ Val(band_gsd) # 0
                          THEN band_gsd ELSE @,
                  !.shape = Some(shape), !.bbox = Some(proj_bbox),
                  !.transform = Some(transform)]

\* BandKeyGsd with the gsd recorded at every resolution
BandKeyGsd_AlwaysGsd(band_id, asset_res) ==
    IF asset_res = BANDS_TO_RESOLUTIONS[band_id][1]
    THEN <<band_id, Some(asset_res)>>
    ELSE <<band_id \o <<"_">> \o StrOfInt(asset_res) \o <<"m">>, Some(asset_res)>>

\* the asset key and the gsd of a band asset: <<asset_key, band_gsd>>
BandKeyGsd(band_id, asset_res) ==
    IF asset_res = BANDS_TO_RESOLUTIONS[band_id][1]
    THEN <<band_id, Some(asset_res)>>
    ELSE <<band_id \o <<"_">> \o StrOfInt(asset_res) \o <<"m">>, None>>

\* the band asset once band_id and asset_res are known
BandResult(asset_href, mt, band_id, asset_res, shape, proj_bbox, transform) ==
    IF band_id \notin DOMAIN BANDS_TO_RESOLUTIONS THEN Raise("KeyError")
    ELSE LET kg == BandKeyGsd(band_id, asset_res)
             asset == [Asset(asset_href, mt, <<"description", band_id, asset_res>>,
                             <<"data">>)
                       EXCEPT !.bands = <<SENTINEL_BANDS[band_id]>>]
         IN  Return(kg[1],
                    set_asset_properties(asset, kg[2], shape, proj_bbox, transform))

\* "Handle band image": the try, and the Level-1C fallback of its except
BandAsset(asset_href, mt, resolution, shape, proj_bbox, transform) ==
    LET group == Val(BAND_ID_PATTERN(asset_href))
        stem_id == LastToken(SplitExt(asset_href)[1])
    IN  IF group \in DOMAIN SENTINEL_BANDS
        THEN BandResult(asset_href, mt, group, resolution, shape, proj_bbox,
                        transform)
        ELSE IF stem_id \notin DOMAIN SENTINEL_BANDS THEN Raise("KeyError")
        ELSE IF group \notin DOMAIN BANDS_TO_RESOLUTIONS THEN Raise("KeyError")
        ELSE BandResult(asset_href, mt, stem_id, BANDS_TO_RESOLUTIONS[group][1],
                        shape, proj_bbox, transform)

\* the key of the true colour image
VisualKey(maybe_res) ==
    IF IsSome(maybe_res) /\ Val(maybe_res) # 0 /\ Val(maybe_res) # 10
    THEN K_visual \o <<"_">> \o StrOfInt(Val(maybe_res)) \o <<"m">>
    ELSE K_visual

mk_asset_id(maybe_res, name) ==
    IF IsSome(maybe_res) /\ Val(maybe_res) # 0 /\ Val(maybe_res) # 20
    THEN name \o <<"_">> \o StrOfInt(Val(maybe_res)) \o <<"m">>
    ELSE name

TrueColorBands == <<SENTINEL_BANDS[B04], SENTINEL_BANDS[B03], SENTINEL_BANDS[B02]>>

\* RuleOf with the true colour test moved before the band test
RuleOf_TciBeforeBand(asset_href) ==
    IF Contains(asset_href, <<"_", "P", "V", "I">>) THEN "preview"
    ELSE IF TCI_PATTERN(asset_href) THEN "visual"
    ELSE IF IsSome(BAND_ID_PATTERN(asset_href)) THEN "band"
    ELSE IF AOT_PATTERN(asset_href) THEN "AOT"
    ELSE IF WVP_PATTERN(asset_href) THEN "WVP"
    ELSE IF SCL_PATTERN(asset_href) THEN "SCL"
    ELSE "none"

\* the branch of the if/elif chain that an href takes
RuleOf(asset_href) ==
    IF Contains(asset_href, <<"_", "P", "V", "I">>) THEN "preview"
    ELSE IF IsSome(BAND_ID_PATTERN(asset_href)) THEN "band"
    ELSE IF TCI_PATTERN(asset_href) THEN "visual"
    ELSE IF AOT_PATTERN(asset_href) THEN "AOT"
    ELSE IF WVP_PATTERN(asset_href) THEN "WVP"
    ELSE IF SCL_PATTERN(asset_href) THEN "SCL"
    ELSE "none"

\* the branches after the preview, the resolution and its shape being known
Classified(asset_href, mt, resolution, shape, proj_bbox, transform) ==
    LET rule == RuleOf(asset_href)
        maybe_res == extract_gsd(asset_href)
        Aux(title, roles) ==
            set_asset_properties(Asset(asset_href, mt, <<title>>, roles), None,
                                 shape, proj_bbox, transform)
    IN  CASE rule = "band" ->
               BandAsset(asset_href, mt, resolution, shape, proj_bbox, transform)
          [] rule = "visual" ->
               Return(VisualKey(maybe_res),
                      [Aux("True color image", <<"visual">>)
                       EXCEPT !.bands = TrueColorBands])
          [] rule = "AOT" ->
               Return(mk_asset_id(maybe_res, K_AOT),
                      Aux("Aerosol optical thickness (AOT)", <<"data">>))
          [] rule = "WVP" ->
               Return(mk_asset_id(maybe_res, K_WVP),
                      Aux("Water vapour (WVP)", <<"data">>))
          [] rule = "SCL" ->
               Return(mk_asset_id(maybe_res, K_SCL),
                      Aux("Scene classification map (SCL)", <<"data">>))
          [] OTHER -> Raise("Unexpected asset")

image_asset_from_href(asset_href, resolution_to_shape, proj_bbox, media_type) ==
    LET mt == MediaTypeOf(asset_href, media_type)
        r == ResolutionOf(asset_href)
    IN  IF ~IsSome(mt) THEN Raise("Must supply a media type")
        ELSE IF RuleOf(asset_href) = "preview"
        THEN Return(K_preview,
                    [Asset(asset_href, Val(mt), <<"True color preview">>, <<"data">>)
                     EXCEPT !.bands = TrueColorBands])
        ELSE IF r.err # "" THEN Raise(r.err)
        ELSE IF ~IsSome(r.res) THEN Raise("TypeError")
        ELSE IF Val(r.res) \notin DOMAIN resolution_to_shape THEN Raise("KeyError")
        ELSE LET shape == resolution_to_shape[Val(r.res)]
             IN  Classified(asset_href, Val(mt), Val(r.res), shape, proj_bbox,
                            transform_from_bbox(proj_bbox, shape))

\* ------------------------------------------------------------------------
\* Dictionaries: a dict that is iterated is the sequence of its (key, value)
\* pairs in insertion order; a dict that is only looked up is a function
\* ------------------------------------------------------------------------
DictHas(d, k) == \E i \in DOMAIN d : d[i][1] = k
\* d[k] = v
DictSet(d, k, v) ==
    IF DictHas(d, k)
    THEN [i \in DOMAIN d |-> IF d[i][1] = k THEN <<k, v>> ELSE d[i]]
    ELSE Append(d, <<k, v>>)
\* dict(pairs): a later pair replaces an earlier one with the same key
RECURSIVE DictOf(_)
DictOf(pairs) ==
    IF pairs = <<>> THEN <<>>
    ELSE DictSet(DictOf(SubSeq(pairs, 1, Len(pairs) - 1)),
                 pairs[Len(pairs)][1], pairs[Len(pairs)][2])
DictKeys(d) == {d[i][1] : i \in DOMAIN d}
\* {**a, **b}: b wins on a shared key
Overlay(a, b) == b @@ a
\* d.get(k)
Get(d, k) == IF k \in DOMAIN d THEN Some(d[k]) ELSE None

\* ------------------------------------------------------------------------
\* Metadata extraction (metadata_from_safe_manifest,
\* metadata_from_granule_metadata); the readers are records of what they expose
\* ------------------------------------------------------------------------
K_safe_manifest == <<"s", "a", "f", "e", "-", "m", "a", "n", "i", "f", "e", "s", "t">>
K_product_metadata ==
    <<"p", "r", "o", "d", "u", "c", "t", "-", "m", "e", "t", "a", "d", "a", "t", "a">>
K_granule_metadata ==
    <<"g", "r", "a", "n", "u", "l", "e", "-", "m", "e", "t", "a", "d", "a", "t", "a">>
K_tileinfo_metadata ==
    <<"t", "i", "l", "e", "i", "n", "f", "o", "-", "m", "e", "t", "a", "d", "a", "t", "a">>
INSPIRE_METADATA_ASSET_KEY ==
    <<"i", "n", "s", "p", "i", "r", "e", "-", "m", "e", "t", "a", "d", "a", "t", "a">>
DATASTRIP_METADATA_ASSET_KEY ==
    <<"d", "a", "t", "a", "s", "t", "r", "i", "p", "-", "m", "e", "t", "a", "d", "a", "t", "a">>
F_metadata_xml == <<"m", "e", "t", "a", "d", "a", "t", "a", ".", "x", "m", "l">>
F_tileInfo_json == <<"t", "i", "l", "e", "I", "n", "f", "o", ".", "j", "s", "o", "n">>

\* the canonical image paths of the Sinergise layout, per level
L2A_IMAGE_PATHS ==
    << <<"R", "1", "0", "m", "/", "B", "0", "2", ".", "j", "p", "2">>,
       <<"R", "2", "0", "m", "/", "B", "0", "2", ".", "j", "p", "2">>,
       <<"R", "2", "0", "m", "/", "S", "C", "L", ".", "j", "p", "2">> >>
L1C_IMAGE_PATHS ==
    << <<"B", "0", "1", ".", "j", "p", "2">>, <<"T", "C", "I", ".", "j", "p", "2">> >>

MetadataAsset(href) == Asset(href, XML, <<>>, <<"metadata">>)

metadata_from_safe_manifest(safe_manifest, product_metadata, granule_metadata) ==
    LET assets == DictOf(<<
            <<K_safe_manifest, MetadataAsset(safe_manifest.href)>>,
            <<K_product_metadata, MetadataAsset(safe_manifest.product_metadata_href)>>,
            <<K_granule_metadata, MetadataAsset(safe_manifest.granule_metadata_href)>>,
            <<INSPIRE_METADATA_ASSET_KEY,
              MetadataAsset(safe_manifest.inspire_metadata_href)>>,
            <<DATASTRIP_METADATA_ASSET_KEY,
              MetadataAsset(safe_manifest.datastrip_metadata_href)>> >>)
        extra_assets ==
            IF IsSome(safe_manifest.thumbnail_href)
            THEN DictSet(assets, K_preview,
                         Asset(Val(safe_manifest.thumbnail_href), COG, <<>>,
                               <<"thumbnail">>))
            ELSE assets
    IN  [scene_id |-> product_metadata.scene_id,
         extra_assets |-> extra_assets,
         geometry |-> product_metadata.geometry,
         bbox |-> product_metadata.bbox,
         datetime |-> product_metadata.datetime,
         platform |-> product_metadata.platform,
         orbit_state |-> product_metadata.orbit_state,
         relative_orbit |-> product_metadata.relative_orbit,
         metadata_dict |-> Overlay(product_metadata.metadata_dict,
                                   granule_metadata.metadata_dict),
         image_media_type |-> product_metadata.image_media_type,
         image_paths |-> product_metadata.image_paths,
         cloudiness_percentage |-> granule_metadata.cloudiness_percentage,
         epsg |-> granule_metadata.epsg,
         proj_bbox |-> granule_metadata.proj_bbox,
         resolution_to_shape |-> granule_metadata.resolution_to_shape]

metadata_from_granule_metadata(granule_metadata_href, granule_metadata, tileinfo_metadata, tolerance) ==
    LET geometry == <<"reprojected", granule_metadata.epsg, tileinfo_metadata.geometry,
                      "simplified", tolerance>>
    IN  [scene_id |-> granule_metadata.scene_id,
         extra_assets |-> DictOf(<<
            <<K_granule_metadata,
              MetadataAsset(PathJoin(granule_metadata_href, F_metadata_xml))>>,
            <<K_tileinfo_metadata,
              Asset(PathJoin(granule_metadata_href, F_tileInfo_json), JSON, <<>>,
                    <<"metadata">>)>> >>),
         metadata_dict |->
            Overlay(Overlay(granule_metadata.metadata_dict,
                            tileinfo_metadata.metadata_dict),
                    "s2:processing_baseline" :> granule_metadata.processing_baseline),
         cloudiness_percentage |-> granule_metadata.cloudiness_percentage,
         epsg |-> granule_metadata.epsg,
         proj_bbox |-> granule_metadata.proj_bbox,
         resolution_to_shape |-> granule_metadata.resolution_to_shape,
         geometry |-> geometry,
         bbox |-> <<"bounds", geometry>>,
         datetime |-> tileinfo_metadata.datetime,
         platform |-> granule_metadata.platform,
         image_media_type |-> JPEG2000,
         image_paths |-> IF Contains(granule_metadata.scene_id,
                                     <<"_", "L", "2", "A", "_">>)
                         THEN L2A_IMAGE_PATHS ELSE L1C_IMAGE_PATHS,
         orbit_state |-> None,
         relative_orbit |-> None]

\* ------------------------------------------------------------------------
\* create_item: the pieces of its body
\* ------------------------------------------------------------------------
\* IsSafeHref without the lower()
IsSafeHref_CaseSensitive(granule_href) ==
    EndsWith(granule_href, <<".", "S", "A", "F", "E">>)

\* granule_href.lower().endswith(".safe")
IsSafeHref(granule_href) ==
    EndsWith(StrLower(granule_href), <<".", "s", "a", "f", "e">>)

\* the values pystac's OrbitState accepts
OrbitStates ==
    { <<"a", "s", "c", "e", "n", "d", "i", "n", "g">>,
      <<"d", "e", "s", "c", "e", "n", "d", "i", "n", "g">>,
      <<"g", "e", "o", "s", "t", "a", "t", "i", "o", "n", "a", "r", "y">> }

\* truth value of an Optional[str] and of an Optional[int]
TruthyStr(o) == IsSome(o) /\ Val(o) # <<>>
TruthyInt(o) == IsSome(o) /\ Val(o) # 0

\* "if metadata.orbit_state or metadata.relative_orbit"
SatCondition(orbit_state, relative_orbit) ==
    TruthyStr(orbit_state) \/ TruthyInt(relative_orbit)

\* f"MGRS-{mgrs.utm_zone}{mgrs.latitude_band}{mgrs.grid_square}"
GridCode(utm_zone, latitude_band, grid_square) ==
    <<"M", "G", "R", "S", "-">> \o StrOfInt(utm_zone) \o latitude_band \o grid_square

\* the walrus test on the mean solar zenith, and the elevation it sets
SunElevation(metadata_dict) ==
    LET msz == Get(metadata_dict, "s2:mean_solar_zenith")
    IN  IF TruthyInt(msz) THEN Some(90 - Val(msz)) ELSE None

\* the loop over chain(image_assets.items(), extra_assets.items()): the assets
\* after it, and whether an assert failed on the way
RECURSIVE AddAll(_, _)
AddAll(assets, chain) ==
    IF chain = <<>> THEN [ok |-> TRUE, assets |-> assets]
    ELSE IF DictHas(assets, chain[1][1]) THEN [ok |-> FALSE, assets |-> assets]
    ELSE AddAll(DictSet(assets, chain[1][1], chain[1][2]), Tail(chain))

SENTINEL_PROVIDER == "ESA"
SENTINEL_CONSTELLATION == "Sentinel 2"
SENTINEL_INSTRUMENTS == <<"msi">>
SENTINEL_LICENSE == "license"

NoMetadata ==
    [scene_id |-> <<>>, extra_assets |-> <<>>, geometry |-> <<>>, bbox |-> <<>>,
     datetime |-> <<>>, platform |-> <<>>, orbit_state |-> None,
     relative_orbit |-> None, metadata_dict |-> <<>>, image_media_type |-> "",
     image_paths |-> <<>>, cloudiness_percentage |-> None, epsg |-> None,
     proj_bbox |-> <<>>, resolution_to_shape |-> <<>>]

\* pystac.Item(id, geometry, bbox, datetime, properties={})
Item(id, geometry, bbox, datetime) ==
    [id |-> id, geometry |-> geometry, bbox |-> bbox, datetime |-> datetime,
     stac_extensions |-> {}, providers |-> <<>>, platform |-> None,
     constellation |-> None, instruments |-> <<>>, eo_cloud_cover |-> None,
     sat_orbit_state |-> None, sat_relative_orbit |-> None, proj_epsg |-> None,
     mgrs_utm_zone |-> None, mgrs_latitude_band |-> None,
     mgrs_grid_square |-> None, grid_code |-> None, view_sun_azimuth |-> None,
     view_sun_elevation |-> None, properties |-> <<>>, assets |-> <<>>,
     links |-> <<>>]
NoItem == Item(<<>>, <<>>, <<>>, <<>>)

\* ------------------------------------------------------------------------
\* State
\* ------------------------------------------------------------------------
VARIABLES
    call,      \* the arguments of a direct call of image_asset_from_href
    result,    \* what that call returned or raised
    apc,       \* "start" | "returned" | "raised" ("idle": no direct call)
    args,      \* the arguments of create_item
    pc,        \* where create_item stands ("idle": no call of it)
    extractor_calls,  \* the extraction routes entered, with their tolerance
    metadata,  \* the Metadata the route returned
    item,      \* the pystac.Item under construction
    image_pairs,   \* the (key, asset) pairs of the list comprehension so far
    image_assets,  \* dict(image_pairs)
    error,     \* what create_item raised
    log        \* logger.error records

avars == <<call, result, apc>>
cvars == <<args, pc, extractor_calls, metadata, item, image_pairs, image_assets,
           error, log>>
vars == <<call, result, apc, args, pc, extractor_calls, metadata, item,
          image_pairs, image_assets, error, log>>

NoArgs == [granule_href |-> <<>>, tolerance |-> 0, additional_providers |-> None,
           asset_href_prefix |-> None]
NoCall == [href |-> <<>>, resolution_to_shape |-> <<>>, proj_bbox |-> <<>>,
           media_type |-> None]

\* ------------------------------------------------------------------------
\* Inputs of a direct call of image_asset_from_href
\* ------------------------------------------------------------------------
Dirs ==
    { <<>>, <<"/">>, <<"/", "R", "1", "0", "m", "/">>,
      <<"/", "R", "6", "0", "m", "/">>, <<"/", "T", "C", "I", "/">>,
      <<"d", "_", "P", "V", "I", "/">> }
Names ==
    { B02, B05, B8A, <<"B", "0", "0">>, <<"B", "X", "X">>,
      <<"T", "_", "B", "8", "A">>, <<"B", "0", "0", "_", "B", "0", "2">>,
      <<"T", "C", "I">>, K_AOT, K_WVP, K_SCL,
      <<"T", "_", "P", "V", "I">>, <<"T", "_", "P", "V", "I", "_", "B", "0", "2">>,
      <<"T", "C", "I", "_", "B", "0", "2">>, <<"A", "O", "T", "_", "T", "C", "I">>,
      <<"S", "C", "L", "_", "T", "C", "I", "x">>,
      <<"W", "V", "P", "_", "S", "C", "L">>, <<"A", "O", "T", "_", "W", "V", "P">>,
      <<"f", "o", "o">> }
Tags ==
    { <<>>, <<"_", "1", "0", "m">>, <<"_", "2", "0", "m">>, <<"_", "6", "0", "m">>,
      <<"_", "3", "0", "m">>, <<"_", "0", "0", "m">> }
Exts ==
    { <<>>, <<".", "j", "p", "2">>, <<".", "t", "i", "f">>,
      <<".", "T", "I", "F", "F">>, <<".", "p", "n", "g">> }
Hrefs == {d \o n \o t \o e : d \in Dirs, n \in Names, t \in Tags, e \in Exts}

ProjBbox == <<600000, 4090200, 709800, 4200000>>
\* resolution -> (rows, cols), as a granule metadata document gives it
FullShapes == (10 :> <<10980, 10980>>) @@ (20 :> <<5490, 5490>>)
              @@ (60 :> <<1830, 1830>>)
ShapeMaps == {FullShapes, [r \in {10, 20} |-> FullShapes[r]]}
MediaArgs == {None, Some(JPEG2000)}

AInit ==
    /\ call \in [href : Hrefs, resolution_to_shape : ShapeMaps,
                 proj_bbox : {ProjBbox}, media_type : MediaArgs]
    /\ result = Raise("")
    /\ apc = "start"
    /\ args = NoArgs /\ pc = "idle" /\ extractor_calls = <<>>
    /\ metadata = NoMetadata /\ item = NoItem /\ image_pairs = <<>>
    /\ image_assets = <<>> /\ error = "" /\ log = <<>>

\* image_asset_from_href(call...) runs to its return or its raise
CallImageAsset ==
    /\ apc = "start"
    /\ result' = image_asset_from_href(call.href, call.resolution_to_shape,
                                       call.proj_bbox, call.media_type)
    /\ apc' = IF result'.ok THEN "returned" ELSE "raised"
    /\ UNCHANGED call
    /\ UNCHANGED cvars

ANext == CallImageAsset
SpecAsset == AInit /\ [][ANext]_vars

\* ------------------------------------------------------------------------
\* Properties of image_asset_from_href
\* ------------------------------------------------------------------------
\* the six classification rules, as the patterns state them
MatchesPreview(h) == Contains(h, <<"_", "P", "V", "I">>)
MatchesBand(h) == IsSome(BAND_ID_PATTERN(h))
\* the rules an href matches, and the earliest of them in the documented order
MatchedRules(h) ==
    {x \in {"preview", "band", "visual", "AOT", "WVP", "SCL"} :
        \/ x = "preview" /\ MatchesPreview(h)
        \/ x = "band" /\ MatchesBand(h)
        \/ x = "visual" /\ TCI_PATTERN(h)
        \/ x = "AOT" /\ AOT_PATTERN(h)
        \/ x = "WVP" /\ WVP_PATTERN(h)
        \/ x = "SCL" /\ SCL_PATTERN(h)}
RuleOrder == <<"preview", "band", "visual", "AOT", "WVP", "SCL">>
EarliestRule(h) ==
    RuleOrder[CHOOSE i \in 1..6 : RuleOrder[i] \in MatchedRules(h)
                                  /\ \A j \in 1..(i - 1) : RuleOrder[j] \notin MatchedRules(h)]
\* the semantic name a key starts with
KeyName(x) ==
    CASE x = "preview" -> K_preview [] x = "visual" -> K_visual
      [] x = "AOT" -> K_AOT [] x = "WVP" -> K_WVP [] x = "SCL" -> K_SCL
\* which rule built a returned asset, read off the asset itself
BuiltBy(res) ==
    CASE Len(res.asset.title) = 3 -> "band"
      [] res.asset.title = <<"True color preview">> -> "preview"
      [] res.asset.title = <<"True color image">> -> "visual"
      [] res.asset.title = <<"Aerosol optical thickness (AOT)">> -> "AOT"
      [] res.asset.title = <<"Water vapour (WVP)">> -> "WVP"
      [] res.asset.title = <<"Scene classification map (SCL)">> -> "SCL"
      [] OTHER -> "none"
MediaResolvable == IsSome(MediaTypeOf(call.href, call.media_type))
\* the resolution the call detected for its href (filename tag, else band
\* table, else the true colour default)
Detected == Val(ResolutionOf(call.href).res)

\* C2 (as claimed): an href with a resolvable media type that matches none of
\* the six rules ends in the 'Unexpected asset' error, tagged or not.
C2_UnmatchedRaisesUnexpected ==
    (apc # "start" /\ MediaResolvable /\ MatchedRules(call.href) = {})
        => (apc = "raised" /\ result.err = "Unexpected asset")

\* a returned asset is the one of the earliest rule its href matches, in the
\* order preview > band > TCI > AOT > WVP > SCL
ReturnedByEarliestRule ==
    apc = "returned" =>
        /\ MatchedRules(call.href) # {}
        /\ BuiltBy(result) = EarliestRule(call.href)
        /\ EarliestRule(call.href) # "band" =>
              LET n == KeyName(EarliestRule(call.href))
              IN  SubSeq(result.key, 1, Len(n)) = n
        /\ EarliestRule(call.href) = "band" => At(result.key, 1) = "B"
\* the call has returned the preview asset: key 'preview', roles ['data'],
\* bands [B04, B03, B02], no projection shape, bbox or transform
ReturnedPreview ==
    /\ apc = "returned"
    /\ result.key = K_preview
    /\ result.asset.roles = <<"data">>
    /\ result.asset.bands = <<[name |-> B04], [name |-> B03], [name |-> B02]>>
    /\ result.asset.shape = None
    /\ result.asset.bbox = None
    /\ result.asset.transform = None

\* C3 (as claimed): a returned asset is the one of the earliest matching rule,
\* and any href containing _PVI is returned as the preview asset.
C3_AnyPviIsPreview ==
    /\ ReturnedByEarliestRule
    /\ (apc # "start" /\ MatchesPreview(call.href)) => ReturnedPreview

\* C3 (amended): a returned asset is the one of the earliest matching rule,
\* and an href containing _PVI is returned as the preview asset when its media
\* type resolves (given explicitly, or a .jp2/.tif/.tiff extension); when it
\* does not resolve the call raises 'Must supply a media type' instead.
C3_FirstMatchWins ==
    /\ ReturnedByEarliestRule
    /\ (apc # "start" /\ MatchesPreview(call.href)) =>
          IF MediaResolvable THEN ReturnedPreview
          ELSE apc = "raised" /\ result.err = "Must supply a media type"
\* C3's case: a returned preview whose href also matches the band rule
C3_Witness ==
    /\ apc = "returned"
    /\ {"preview", "band"} \subseteq MatchedRules(call.href)
    /\ result.key = K_preview

\* C4: a band asset of band b at detected resolution r has the key b and the
\* gsd r when r is b's native resolution, else the key '{b}_{r}m' and no gsd;
\* its band list is exactly [b].
C4_BandKeyAndGsd ==
    (apc = "returned" /\ EarliestRule(call.href) = "band") =>
        LET b == Val(BAND_ID_PATTERN(call.href))
            r == Detected
        IN  /\ result.asset.bands = <<[name |-> b]>>
            /\ r = BANDS_TO_RESOLUTIONS[b][1] =>
                  result.key = b /\ result.asset.gsd = Some(r)
            /\ r # BANDS_TO_RESOLUTIONS[b][1] =>
                  /\ result.key = b \o <<"_">> \o StrOfInt(r) \o <<"m">>
                  /\ result.asset.gsd = None
\* C4's case: a band asset returned at a resolution that is not its native one
C4_Witness ==
    /\ apc = "returned"
    /\ ~MatchesPreview(call.href) /\ MatchesBand(call.href)
    /\ Detected # BANDS_TO_RESOLUTIONS[Val(BAND_ID_PATTERN(call.href))][1]
    /\ result.asset.gsd = None

\* C5 (as claimed): a true colour, AOT, WVP or SCL asset has the bare key when
\* the detected resolution is the product's default (10 for visual, 20 for the
\* others) and '{name}_{resolution}m' when it differs.
C5_AuxKeyByDetectedResolution ==
    (apc = "returned" /\ EarliestRule(call.href) \in {"visual", "AOT", "WVP", "SCL"}) =>
        LET n == KeyName(EarliestRule(call.href))
            d == IF EarliestRule(call.href) = "visual" THEN 10 ELSE 20
        IN  result.key = IF Detected = d THEN n
                         ELSE n \o <<"_">> \o StrOfInt(Detected) \o <<"m">>

\* ------------------------------------------------------------------------
\* Inputs of create_item and the documents its readers may find
\* ------------------------------------------------------------------------
MaxPaths == 2

GranuleHrefs ==
    { <<"a", ".", "S", "A", "F", "E">>, <<"b", ".", "S", "a", "F", "e">>,
      <<"a", ".", "s", "a", "f", "e">>,
      <<"a", ".", "S", "A", "F", "E", "/">>, <<"a", "S", "A", "F", "E">>,
      <<"t", "/", "0">> }
\* every href with the plain arguments, and two hrefs (one per route) with
\* another tolerance, an additional provider and an asset href prefix
ArgSets ==
    [granule_href : GranuleHrefs, tolerance : {3},
     additional_providers : {None}, asset_href_prefix : {None}]
    \cup [granule_href : {<<"a", ".", "S", "A", "F", "E">>, <<"t", "/", "0">>},
          tolerance : {5}, additional_providers : {Some(<<"X">>)},
          asset_href_prefix : {Some(<<"/", "p", "/">>)}]

SceneIds ==
    { <<"S", "2", "A", "_", "L", "2", "A", "_", "T", "0", "1", "C", "C", "V">>,
      <<"S", "2", "A", "_", "L", "1", "C", "_", "T", "7", "W", "E", "V">>,
      <<"S", "2", "A", "_", "L", "2", "A", "_", "T", "5", "X", "A", "_", "T", "3", "2",
        "T", "Q", "M">>,
      <<"S", "2", "A", "_", "L", "1", "C", "_", "T", "1", "0", "I", "D", "G">>,
      <<"S", "2", "A", "_", "L", "2", "A", "_", "T", "1", "2", "3", "C", "V">> }

\* the image paths a product metadata document may list
ProductImagePaths ==
    { <<"T", "_", "B", "0", "2", "_", "1", "0", "m", ".", "j", "p", "2">>,
      <<"R", "1", "0", "m", "/", "B", "0", "2", ".", "j", "p", "2">>,
      <<"T", "_", "P", "V", "I", ".", "j", "p", "2">>,
      <<"f", "o", "o", "_", "1", "0", "m", ".", "j", "p", "2">> }
PathLists ==
    UNION {[1..n -> ProductImagePaths] : n \in 0..MaxPaths}

SafeManifests ==
    [href : {<<"m">>}, product_metadata_href : {<<"p">>},
     granule_metadata_href : {<<"g">>}, inspire_metadata_href : {<<"i">>},
     datastrip_metadata_href : {<<"d">>},
     thumbnail_href : {None, Some(<<"t">>)}]
ProductDocs ==
    [scene_id : SceneIds, geometry : {<<"footprint">>}, bbox : {<<"bbox">>},
     datetime : {<<"datetime">>},
     platform : {<<"S", "e", "n", "t", "i", "n", "e", "l", "-", "2", "A">>},
     orbit_state : {None, Some(<<"A", "S", "C", "E", "N", "D", "I", "N", "G">>),
                    Some(<<"S", "i", "d", "e", "w", "a", "y", "s">>)},
     relative_orbit : {None, Some(0), Some(128)},
     metadata_dict : {("s2:product_type" :> 1) @@ ("s2:datatake_id" :> 7)},
     image_media_type : {JPEG2000},
     image_paths : PathLists]
GranuleDicts ==
    { "s2:product_type" :> 2,
      "s2:mean_solar_zenith" :> 0,
      ("s2:mean_solar_zenith" :> 30) @@ ("s2:mean_solar_azimuth" :> 120) }
GranuleDocs(scene_ids, dicts) ==
    [scene_id : scene_ids,
     platform : {<<"S", "e", "n", "t", "i", "n", "e", "l", "-", "2", "A">>},
     cloudiness_percentage : {Some(12)}, epsg : {None, Some(32601)},
     proj_bbox : {ProjBbox}, resolution_to_shape : {FullShapes},
     metadata_dict : dicts, processing_baseline : {212}]
TileInfoDocs ==
    [geometry : {<<"tile">>}, datetime : {<<"datetime">>},
     metadata_dict : {"s2:product_type" :> 3, "s2:mean_solar_zenith" :> 0}]

\* ------------------------------------------------------------------------
\* create_item, statement by statement
\* ------------------------------------------------------------------------
Init ==
    /\ args \in ArgSets
    /\ pc = "dispatch"
    /\ extractor_calls = <<>>
    /\ metadata = NoMetadata
    /\ item = NoItem
    /\ image_pairs = <<>>
    /\ image_assets = <<>>
    /\ error = ""
    /\ log = <<>>
    /\ call = NoCall /\ result = Raise("") /\ apc = "idle"

RaiseError(e) == pc' = "raised" /\ error' = e

\* the .SAFE branch: metadata_from_safe_manifest(granule_href, read_href_modifier)
ExtractSafe ==
    /\ pc = "dispatch"
    /\ IsSafeHref(args.granule_href)
    /\ \E sm \in SafeManifests, pm \in ProductDocs,
          gm \in GranuleDocs({<<>>}, GranuleDicts) :
          metadata' = metadata_from_safe_manifest(sm, pm, gm)
    /\ extractor_calls' = Append(extractor_calls, [route |-> "safe", tolerance |-> None])
    /\ pc' = "item"
    /\ UNCHANGED <<args, item, image_pairs, image_assets, error, log>>
    /\ UNCHANGED avars

\* the else branch: metadata_from_granule_metadata(granule_href,
\* read_href_modifier, tolerance)
ExtractGranule ==
    /\ pc = "dispatch"
    /\ ~IsSafeHref(args.granule_href)
    /\ \E gm \in GranuleDocs(SceneIds, {"s2:product_type" :> 2}), ti \in TileInfoDocs :
          metadata' = metadata_from_granule_metadata(args.granule_href, gm, ti,
                                                     args.tolerance)
    /\ extractor_calls' = Append(extractor_calls,
                                 [route |-> "granule", tolerance |-> Some(args.tolerance)])
    /\ pc' = "item"
    /\ UNCHANGED <<args, item, image_pairs, image_assets, error, log>>
    /\ UNCHANGED avars

\* either branch, a document missing or unreadable: the reader raises
ExtractRaises ==
    /\ pc = "dispatch"
    /\ extractor_calls' =
          Append(extractor_calls,
                 IF IsSafeHref(args.granule_href)
                 THEN [route |-> "safe", tolerance |-> None]
                 ELSE [route |-> "granule", tolerance |-> Some(args.tolerance)])
    /\ RaiseError("read error")
    /\ UNCHANGED <<args, metadata, item, image_pairs, image_assets, log>>
    /\ UNCHANGED avars

\* pystac.Item(...), the common metadata and the eo extension
NewItem ==
    /\ pc = "item"
    /\ item' = [Item(metadata.scene_id, metadata.geometry, metadata.bbox,
                     metadata.datetime)
                EXCEPT !.providers = <<SENTINEL_PROVIDER>>
                                     \o (IF IsSome(args.additional_providers)
                                         THEN Val(args.additional_providers)
                                         ELSE <<>>),
                       !.platform = Some(StrLower(metadata.platform)),
                       !.constellation = Some(SENTINEL_CONSTELLATION),
                       !.instruments = SENTINEL_INSTRUMENTS,
                       !.stac_extensions = {"eo"},
                       !.eo_cloud_cover = metadata.cloudiness_percentage]
    /\ pc' = "sat"
    /\ UNCHANGED <<args, extractor_calls, metadata, image_pairs, image_assets,
                   error, log>>
    /\ UNCHANGED avars

\* the sat extension
SatStep ==
    /\ pc = "sat"
    /\ IF ~SatCondition(metadata.orbit_state, metadata.relative_orbit)
       THEN pc' = "proj" /\ UNCHANGED <<item, error>>
       ELSE IF TruthyStr(metadata.orbit_state)
               /\ StrLower(Val(metadata.orbit_state)) \notin OrbitStates
       THEN /\ item' = [item EXCEPT !.stac_extensions = @ \cup {"sat"}]
            /\ RaiseError("ValueError")
       ELSE /\ item' = [item EXCEPT
                        !.stac_extensions = @ \cup {"sat"},
                        !.sat_orbit_state =
                            IF TruthyStr(metadata.orbit_state)
                            THEN Some(StrLower(Val(metadata.orbit_state)))
                            ELSE None,
                        !.sat_relative_orbit = metadata.relative_orbit]
            /\ pc' = "proj"
            /\ UNCHANGED error
    /\ UNCHANGED <<args, extractor_calls, metadata, image_pairs, image_assets, log>>
    /\ UNCHANGED avars

\* ProjStep without the check that raises
ProjStep_NoEpsgCheck ==
    /\ pc = "proj"
    /\ item' = [item EXCEPT !.stac_extensions = @ \cup {"proj"},
                            !.proj_epsg = metadata.epsg]
    /\ pc' = "mgrs"
    /\ UNCHANGED <<args, extractor_calls, metadata, image_pairs, image_assets,
                   error, log>>
    /\ UNCHANGED avars

\* the projection extension and the EPSG check
ProjStep ==
    /\ pc = "proj"
    /\ item' = [item EXCEPT !.stac_extensions = @ \cup {"proj"},
                            !.proj_epsg = metadata.epsg]
    /\ IF ~IsSome(metadata.epsg)
       THEN RaiseError("Could not determine EPSG code")
       ELSE pc' = "mgrs" /\ UNCHANGED error
    /\ UNCHANGED <<args, extractor_calls, metadata, image_pairs, image_assets, log>>
    /\ UNCHANGED avars

\* the MGRS and grid extensions
MgrsStep ==
    /\ pc = "mgrs"
    /\ LET mgrs_match == MGRS_PATTERN(metadata.scene_id)
           mgrs_groups == Val(mgrs_match)
           utm_zone == IntOfDigits(mgrs_groups[1])
       IN  IF IsSome(mgrs_match)
           THEN /\ item' = [item EXCEPT
                            !.stac_extensions = @ \cup {"mgrs", "grid"},
                            !.mgrs_utm_zone = Some(utm_zone),
                            !.mgrs_latitude_band = Some(mgrs_groups[2]),
                            !.mgrs_grid_square = Some(mgrs_groups[3]),
                            !.grid_code = Some(GridCode(utm_zone, mgrs_groups[2],
                                                        mgrs_groups[3]))]
                /\ UNCHANGED log
           ELSE /\ log' = Append(log, <<"Error populating MGRS and Grid Extensions fields from ID",
                                        metadata.scene_id>>)
                /\ UNCHANGED item
    /\ pc' = "view"
    /\ UNCHANGED <<args, extractor_calls, metadata, image_pairs, image_assets, error>>
    /\ UNCHANGED avars

\* the view extension and item.properties.update(metadata.metadata_dict)
ViewStep ==
    /\ pc = "view"
    /\ item' = [item EXCEPT
                !.stac_extensions = @ \cup {"view"},
                !.view_sun_azimuth = Get(metadata.metadata_dict, "s2:mean_solar_azimuth"),
                !.view_sun_elevation = SunElevation(metadata.metadata_dict),
                !.properties = metadata.metadata_dict]
    /\ pc' = "images"
    /\ UNCHANGED <<args, extractor_calls, metadata, image_pairs, image_assets,
                   error, log>>
    /\ UNCHANGED avars

\* asset_href_prefix or granule_href
AssetBase ==
    IF TruthyStr(args.asset_href_prefix) THEN Val(args.asset_href_prefix)
    ELSE args.granule_href

\* one element of the list comprehension over metadata.image_paths
ClassifyImage ==
    /\ pc = "images"
    /\ Len(image_pairs) < Len(metadata.image_paths)
    /\ LET image_path == metadata.image_paths[Len(image_pairs) + 1]
           r == image_asset_from_href(PathJoin(AssetBase, image_path),
                                      metadata.resolution_to_shape,
                                      metadata.proj_bbox,
                                      Some(metadata.image_media_type))
       IN  IF r.ok
           THEN /\ image_pairs' = Append(image_pairs, <<r.key, r.asset>>)
                /\ UNCHANGED <<pc, error>>
           ELSE /\ RaiseError(r.err)
                /\ UNCHANGED image_pairs
    /\ UNCHANGED <<args, extractor_calls, metadata, item, image_assets, log>>
    /\ UNCHANGED avars

\* image_assets = dict([...]) once the comprehension is through
BuildImageAssets ==
    /\ pc = "images"
    /\ Len(image_pairs) = Len(metadata.image_paths)
    /\ image_assets' = DictOf(image_pairs)
    /\ pc' = "add"
    /\ UNCHANGED <<args, extractor_calls, metadata, item, image_pairs, error, log>>
    /\ UNCHANGED avars

\* the loop that asserts each key new and adds the asset
AddAssets ==
    /\ pc = "add"
    /\ LET added == AddAll(item.assets, image_assets \o metadata.extra_assets)
       IN  /\ item' = [item EXCEPT !.assets = added.assets]
           /\ IF added.ok THEN pc' = "links" /\ UNCHANGED error
              ELSE RaiseError("AssertionError")
    /\ UNCHANGED <<args, extractor_calls, metadata, image_pairs, image_assets, log>>
    /\ UNCHANGED avars

\* the license link, and the return
Finish ==
    /\ pc = "links"
    /\ item' = [item EXCEPT !.links = Append(@, SENTINEL_LICENSE)]
    /\ pc' = "done"
    /\ UNCHANGED <<args, extractor_calls, metadata, image_pairs, image_assets,
                   error, log>>
    /\ UNCHANGED avars

Next ==
    \/ ExtractSafe
    \/ ExtractGranule
    \/ ExtractRaises
    \/ NewItem
    \/ SatStep
    \/ ProjStep
    \/ MgrsStep
    \/ ViewStep
    \/ ClassifyImage
    \/ BuildImageAssets
    \/ AddAssets
    \/ Finish

Spec == Init /\ [][Next]_vars

\* ------------------------------------------------------------------------
\* Properties of create_item
\* ------------------------------------------------------------------------
\* a route has returned its Metadata
Extracted == metadata.image_media_type # ""
\* the statements after the sat block have been reached
PastSat == pc \in {"proj", "mgrs", "view", "images", "add", "links", "done"}
PastMgrs == pc \in {"view", "images", "add", "links", "done"}

\* C1 (as claimed): an Item is returned only when the image paths classify to
\* pairwise different keys, and it then holds one asset per image path and
\* per extra asset.
C1_OneAssetPerImagePath ==
    pc = "done" =>
        /\ \A i, j \in DOMAIN image_pairs :
              i # j => image_pairs[i][1] # image_pairs[j][1]
        /\ Len(item.assets) = Len(metadata.image_paths) + Len(metadata.extra_assets)

\* C6: with no EPSG code in the extracted metadata create_item never classifies
\* an image path and never adds an asset; it does not return, and the only
\* place it can stop is a raise.
C6_NoEpsgRaisesBeforeAssets ==
    (Extracted /\ ~IsSome(metadata.epsg)) =>
        /\ image_pairs = <<>>
        /\ image_assets = <<>>
        /\ item.assets = <<>>
        /\ pc \in {"item", "sat", "proj", "raised"}
        /\ pc # "raised" => ENABLED Next
\* C6's case: the EPSG check has raised for metadata that lists image paths
C6_Witness ==
    /\ pc = "raised"
    /\ error = "Could not determine EPSG code"
    /\ ~IsSome(metadata.epsg)
    /\ Len(metadata.image_paths) > 0
    /\ Len(metadata.extra_assets) > 0

\* C7 (as claimed): the sat group is attached exactly when the orbit state or
\* the relative orbit is not None (a relative orbit of 0 is present); attached,
\* it carries the relative orbit and the lowercased orbit state.
C7_SatIffPresent ==
    PastSat =>
        /\ ("sat" \in item.stac_extensions)
              <=> (IsSome(metadata.orbit_state) \/ IsSome(metadata.relative_orbit))
        /\ "sat" \in item.stac_extensions =>
              /\ item.sat_relative_orbit = metadata.relative_orbit
              /\ item.sat_orbit_state =
                    IF IsSome(metadata.orbit_state)
                    THEN Some(StrLower(Val(metadata.orbit_state))) ELSE None

\* the claim's test of the suffix, letter by letter
EndsInDotSafeAnyCase(h) ==
    LET n == Len(h)
    IN  /\ n >= 5
        /\ h[n - 4] = "."
        /\ h[n - 3] \in {"s", "S"} /\ h[n - 2] \in {"a", "A"}
        /\ h[n - 1] \in {"f", "F"} /\ h[n] \in {"e", "E"}

\* C8: once dispatched, exactly one extraction route has been entered: the SAFE
\* manifest route without the tolerance when the granule href ends in .SAFE in
\* any letter case, else the granule+tile-info route with the caller's
\* tolerance; the Metadata is the one of that route.
C8_RouteByHref ==
    /\ pc = "dispatch" => extractor_calls = <<>>
    /\ pc # "dispatch" =>
          /\ Len(extractor_calls) = 1
          /\ extractor_calls[1] =
                IF EndsInDotSafeAnyCase(args.granule_href)
                THEN [route |-> "safe", tolerance |-> None]
                ELSE [route |-> "granule", tolerance |-> Some(args.tolerance)]
    /\ Extracted =>
          IF EndsInDotSafeAnyCase(args.granule_href)
          THEN /\ DictHas(metadata.extra_assets, K_safe_manifest)
               /\ ~DictHas(metadata.extra_assets, K_tileinfo_metadata)
               /\ metadata.geometry = <<"footprint">>
          ELSE /\ DictHas(metadata.extra_assets, K_tileinfo_metadata)
               /\ ~DictHas(metadata.extra_assets, K_safe_manifest)
               /\ metadata.geometry[Len(metadata.geometry)] = args.tolerance
\* C8's case: the SAFE route entered for an href whose suffix is not upper case
C8_Witness ==
    /\ Extracted
    /\ extractor_calls = <<[route |-> "safe", tolerance |-> None]>>
    /\ ~EndsWith(args.granule_href, <<".", "S", "A", "F", "E">>)

\* C9 (as claimed): a returned Item has the sun elevation 90 - zenith whenever
\* the mean solar zenith is in the metadata mapping, 0 included, and none when
\* it is not.
C9_ElevationWheneverZenith ==
    pc = "done" =>
        LET msz == Get(metadata.metadata_dict, "s2:mean_solar_zenith")
        IN  item.view_sun_elevation = IF IsSome(msz) THEN Some(90 - Val(msz)) ELSE None

\* the zone digits without a leading zero
Unpadded(zone) == IF Len(zone) = 2 /\ zone[1] = "0" THEN <<zone[2]>> ELSE zone
MgrsMatches == IsSome(MGRS_PATTERN(metadata.scene_id))

\* C10 (as claimed): a scene id without a tile designator gets one error
\* record and no MGRS or grid property, and the Item that is returned for it
\* carries the view properties (azimuth, and elevation 90 - zenith), the
\* metadata mapping, one asset for every image path and every extra asset, and
\* the license link; a scene id with a designator gets the grid code
\* MGRS-{zone}{band}{square}, the zone without padding.
C10_MgrsFailureKeepsEverything ==
    /\ PastMgrs =>
          IF MgrsMatches
          THEN LET g == Val(MGRS_PATTERN(metadata.scene_id))
               IN  /\ item.grid_code =
                         Some(<<"M", "G", "R", "S", "-">> \o Unpadded(g[1]) \o g[2] \o g[3])
                   /\ item.mgrs_latitude_band = Some(g[2])
                   /\ item.mgrs_grid_square = Some(g[3])
                   /\ log = <<>>
          ELSE /\ item.grid_code = None
               /\ item.mgrs_utm_zone = None
               /\ item.mgrs_latitude_band = None
               /\ item.mgrs_grid_square = None
               /\ item.stac_extensions \cap {"mgrs", "grid"} = {}
               /\ Len(log) = 1
    /\ (pc = "done" /\ ~MgrsMatches) =>
          LET msz == Get(metadata.metadata_dict, "s2:mean_solar_zenith")
          IN  /\ "view" \in item.stac_extensions
              /\ item.view_sun_azimuth =
                    Get(metadata.metadata_dict, "s2:mean_solar_azimuth")
              /\ item.view_sun_elevation =
                    IF IsSome(msz) THEN Some(90 - Val(msz)) ELSE None
              /\ item.properties = metadata.metadata_dict
              /\ Len(image_pairs) = Len(metadata.image_paths)
              /\ Len(item.assets) =
                    Len(metadata.image_paths) + Len(metadata.extra_assets)
              /\ \A i \in DOMAIN image_pairs :
                    \E j \in DOMAIN item.assets : item.assets[j] = image_pairs[i]
              /\ \A i \in DOMAIN metadata.extra_assets :
                    \E j \in DOMAIN item.assets : item.assets[j] = metadata.extra_assets[i]
              /\ item.links = <<SENTINEL_LICENSE>>

====
